---- MODULE Spec2Model ----
(***************************************************************************)
(* Authentication and session-revocation core of the test-taking backend   *)
(* (src/backend/app): users with a token_version epoch, JWT access and     *)
(* refresh tokens, the Redis blocklist, and the request handlers of        *)
(* routes/auth_routes.py.  Handlers that read a row and later write or     *)
(* issue from what they read are split at that point, so that requests of  *)
(* parallel workers interleave as they do against the shared database.     *)
(* The quiz handlers of routes/test_sessions_routes.py (sessions, their     *)
(* categories and answers) and the health probes of routes_config.py are   *)
(* modelled the same way, each in a specification of its own.              *)
(***************************************************************************)
EXTENDS Integers, Sequences, FiniteSets, Bags, TLC

VARIABLES
    users,        \* table users: row i is the user with id i
    sessions,     \* table user_test_sessions: row i is the session with id i
    session_categories,  \* table session_test_categories, keyed by
                  \* <<session_id, category_id>>
    answers,      \* table user_test_answers: row i is the answer with id i
    tokens,       \* the JWTs issued so far (their claims)
    cache,        \* Redis: blocklisted jti -> the time its key expires
    redisUp,      \* the Redis server answers
    now,          \* the clock
    inflight,     \* requests that have read their row and not yet answered
    last,         \* the response just sent, until it is delivered
    revokedUpTo,  \* history: per user, the tokens issued before a logout_all
                  \* call that has succeeded (the highest such jti)
    loggedOut     \* history: the jti of every token whose logout answered 200

\* the tables of the quiz
quiz == <<sessions, session_categories, answers>>

db == <<users, quiz>>

history == <<revokedUpTo, loggedOut>>

vars == <<users, sessions, session_categories, answers, tokens, cache, redisUp,
          now, inflight, last, revokedUpTo, loggedOut>>

(* ------------------------------- bounds -------------------------------- *)
\* tokens ever issued
MaxTokens == 3
\* last tick of the clock
MaxTime == 2
\* tokens ever issued in the specification of racing requests
RaceTokens == 5
\* tokens ever issued in the specification with registration
RegTokens == 3
\* tokens ever issued in the specification of logout with the clock running
TtlTokens == 2

(* -------------------------- program constants -------------------------- *)
\* expires_delta of an access token (15 minutes), in clock ticks
AccessTTL == 1
\* expires_delta of a refresh token (30 days), in clock ticks
RefreshTTL == 2
\* User.token_version default
DefaultTokenVersion == 1

(* ------------------------------ deployment ----------------------------- *)
\* the host's request workers: at most this many requests are in progress
Workers == {"w1", "w2"}

(* ------------------------------- inputs -------------------------------- *)
\* request bodies: e-mail addresses as character sequences, as typed
RawEmails == { <<"A", " ">>, <<"b">>, <<" ">> }
RawPasswords == { "pw", "bad", "" }

\* the bodies of register: two spellings of one address among the e-mails
RegisterEmails == RawEmails \cup { <<"a">> }
RegisterPasswords == { "pw", "" }
RawNames == { <<"n">>, <<" ">> }

(* ------------------------- string normalisation ------------------------ *)
\* str.lower() on one character
LowerChar(c) == CASE c = "A" -> "a" [] c = "B" -> "b" [] OTHER -> c

\* str.lower()
Lower(s) == [i \in 1..Len(s) |-> LowerChar(s[i])]

RECURSIVE LStrip(_)
\* leading whitespace removed
LStrip(s) == IF s # <<>> /\ Head(s) = " " THEN LStrip(Tail(s)) ELSE s

RECURSIVE RStrip(_)
\* trailing whitespace removed
RStrip(s) ==
    IF s # <<>> /\ s[Len(s)] = " " THEN RStrip(SubSeq(s, 1, Len(s) - 1)) ELSE s

\* str.strip()
Strip(s) == RStrip(LStrip(s))

\* a normalisation that keeps the case of the letters
NormaliseEmailKeepCase(raw) == Strip(raw)

\* (data.get("email") or "").strip().lower()
NormaliseEmail(raw) == Lower(Strip(raw))

(* ------------------------------ passwords ------------------------------ *)
\* bcrypt.generate_password_hash
GeneratePasswordHash(p) == <<"bcrypt", p>>

\* bcrypt.check_password_hash
CheckPasswordHash(h, p) == h = GeneratePasswordHash(p)

\* a row created with token_version 2
NewUserVersionTwo(first, lastn, email, hash) ==
    [first_name |-> first, last_name |-> lastn, email |-> email,
     password |-> hash, token_version |-> 2]

(* -------------------------------- users -------------------------------- *)
\* User(...): a row of table users; its id is its position in the table
NewUser(first, lastn, email, hash) ==
    [first_name |-> first, last_name |-> lastn, email |-> email,
     password |-> hash, token_version |-> DefaultTokenVersion]

\* User.query.get(uid) finds a row
UserExists(uid) == uid \in DOMAIN users

\* User.query.filter_by(email=email).first(): the id, or 0 for None
FindByEmail(email) ==
    IF \E i \in DOMAIN users : users[i].email = email
    THEN CHOOSE i \in DOMAIN users : users[i].email = email
    ELSE 0

(* ------------------------------- tokens -------------------------------- *)
\* the jti of the n-th token created from now on (uuid4: never repeats)
FreshJti(n) == Cardinality(tokens) + n

\* an access token issued to the other of two users
CreateAccessTokenOtherSubject(uid, ver, n, parent) ==
    [jti |-> FreshJti(n), sub |-> IF uid = 1 THEN 2 ELSE 1, kind |-> "access",
     ver |-> ver, iat |-> now, exp |-> now + AccessTTL, parent |-> parent]

\* create_access_token(identity, expires_delta=15 min, additional_claims={"ver": ver})
\* parent is the refresh token it was minted from (0 at login): bookkeeping only
CreateAccessToken(uid, ver, n, parent) ==
    [jti |-> FreshJti(n), sub |-> uid, kind |-> "access", ver |-> ver,
     iat |-> now, exp |-> now + AccessTTL, parent |-> parent]

\* create_refresh_token(identity, expires_delta=30 days, additional_claims={"ver": ver})
CreateRefreshToken(uid, ver, n) ==
    [jti |-> FreshJti(n), sub |-> uid, kind |-> "refresh", ver |-> ver,
     iat |-> now, exp |-> now + RefreshTTL, parent |-> 0]

(* --------------------------- Redis blocklist --------------------------- *)
\* r.exists(_bl_key(jti)) on a reachable server: the key is set and its TTL
\* has not run out
RedisExists(jti) == jti \in DOMAIN cache /\ cache[jti] > now

\* a fail-closed callback: a Redis fault reads as "revoked"
TokenInBlocklistFailClosed(t) == IF redisUp THEN RedisExists(t.jti) ELSE TRUE

\* token_in_blocklist: fail-open, a Redis fault reads as "not revoked"
TokenInBlocklist(t) == IF redisUp THEN RedisExists(t.jti) ELSE FALSE

\* the remaining lifetime, not clamped
RevokeTtlUnclamped(exp) == exp - now

\* ttl = max(1, exp_ts - now)
RevokeTtl(exp) == IF exp - now > 1 THEN exp - now ELSE 1

\* r.setex(key, ttl, "1"): the key now expires at now + ttl
SetEx(jti, ttl) ==
    [j \in DOMAIN cache \cup {jti} |-> IF j = jti THEN now + ttl ELSE cache[j]]

\* revoke_jti_with_ttl: the cache after the call; a Redis fault is caught and
\* printed, and the cache is left as it was
RevokeJtiWithTtl(t) == IF redisUp THEN SetEx(t.jti, RevokeTtl(t.exp)) ELSE cache

(* ------------------------- @jwt_required(...) -------------------------- *)
\* a decorator that checks the token type before it decodes the expiry
VerifyJwtTypeFirst(t, refresh) ==
    IF (t.kind = "refresh") # refresh THEN "wrong_type"
    ELSE IF t.exp <= now THEN "expired"
    ELSE IF TokenInBlocklist(t) THEN "revoked"
    ELSE "ok"

\* a decorator that skips the check of the token type
VerifyJwtAnyType(t, refresh) ==
    IF t.exp <= now THEN "expired"
    ELSE IF TokenInBlocklist(t) THEN "revoked"
    ELSE "ok"

\* decode (expiry), then the token type, then the blocklist callback
VerifyJwt(t, refresh) ==
    IF t.exp <= now THEN "expired"
    ELSE IF (t.kind = "refresh") # refresh THEN "wrong_type"
    ELSE IF TokenInBlocklist(t) THEN "revoked"
    ELSE "ok"

(* ------------------------------ responses ------------------------------ *)
Resp(op, jti, code, msg, out) ==
    [op |-> op, jti |-> jti, code |-> code, msg |-> msg, out |-> out]

\* no response on the wire; as the result of a handler's checks: go on
NoResp == Resp("none", 0, 0, "", <<>>)

\* the response flask-jwt-extended gives when the decorator rejects the token
JwtError(op, t, v) ==
    CASE v = "expired" -> Resp(op, t.jti, 401, "Token has expired", <<>>)
      [] v = "revoked" -> Resp(op, t.jti, 401, "Token has been revoked", <<>>)
      [] v = "wrong_type" ->
            Resp(op, t.jti, 422,
                 IF t.kind = "access" THEN "Only refresh tokens are allowed"
                 ELSE "Only non-refresh tokens are allowed", <<>>)

\* _assert_token_version_or_401: TRUE when the 401 is returned
TokenVersionMismatch(uid, ver) == users[uid].token_version # ver

\* the token with this jti
TokenOf(jti) == CHOOSE t \in tokens : t.jti = jti

(* ------------------------- requests in progress ------------------------ *)
\* a request that has read its row: the token it came with, the ORM object
\* (the row as read) it carries to its second step, and (history, kept for
\* logout_all) how many tokens had been issued when it was taken
Request(op, jti, uid, row) ==
    [op |-> op, jti |-> jti, uid |-> uid, row |-> row,
     mark |-> IF op = "logout_all" THEN Cardinality(tokens) ELSE 0]

Pending(op) == {r \in BagToSet(inflight) : r.op = op}

\* requests of kind op in flight, counted with their multiplicity
RECURSIVE CountPending(_, _)
CountPending(op, S) ==
    IF S = {} THEN 0
    ELSE LET r == CHOOSE x \in S : TRUE
         IN  (IF r.op = op THEN CopiesIn(r, inflight) ELSE 0)
             + CountPending(op, S \ {r})

\* tokens the requests in flight will still issue
Reserved ==
    2 * CountPending("login", BagToSet(inflight))
    + CountPending("refresh", BagToSet(inflight))

\* a worker is free to take a request
FreeWorker == BagCardinality(inflight) < Cardinality(Workers)

\* n more tokens fit under the bound max
TokensLeft(max, n) == Cardinality(tokens) + Reserved + n <= max

Start(r) == inflight' = inflight (+) SetToBag({r})

Finish(r) == inflight' = inflight (-) SetToBag({r})

\* the handler answers resp at once, or (resp = NoResp) goes on as request r
AnswerOrStart(resp, r) ==
    IF resp # NoResp
    THEN last' = resp /\ UNCHANGED inflight
    ELSE last' = NoResp /\ Start(r)

\* the previous response has been delivered to its client
Idle == last = NoResp

(* -------------------------------- Init --------------------------------- *)
\* the users of the initial state: two registrations have been served
Registered ==
    <<NewUser(<<"n">>, <<"n">>, <<"a">>, GeneratePasswordHash("pw")),
      NewUser(<<"n">>, <<"n">>, <<"b">>, GeneratePasswordHash("pw"))>>

Init ==
    /\ users = Registered
    /\ sessions = <<>>
    /\ session_categories = <<>>
    /\ answers = <<>>
    /\ tokens = {}
    /\ cache = <<>>
    /\ redisUp = TRUE
    /\ now = 0
    /\ inflight = EmptyBag
    /\ last = NoResp
    /\ revokedUpTo = [u \in DOMAIN Registered |-> 0]
    /\ loggedOut = {}

(* -------------------------------- login -------------------------------- *)
\* login, lines 55-64: the early returns
LoginCheck(raw, pw) ==
    LET email == NormaliseEmail(raw)
        uid == FindByEmail(email)
    IN  IF email = <<>> \/ pw = ""
        THEN Resp("login", 0, 400, "Missing email or password", <<>>)
        ELSE IF uid = 0 \/ ~CheckPasswordHash(users[uid].password, pw)
        THEN Resp("login", 0, 401, "Invalid email or password", <<>>)
        ELSE NoResp

LoginBegin(raw, pw) ==
    LET uid == FindByEmail(NormaliseEmail(raw))
    IN  /\ AnswerOrStart(LoginCheck(raw, pw),
                         Request("login", 0, uid, IF uid = 0 THEN <<>> ELSE users[uid]))
        /\ UNCHANGED <<db, tokens, cache, redisUp, now, history>>

\* a login that puts no ver into its tokens
LoginClaimsVerMissing(row) == 0

\* claims = {"ver": user.token_version}
LoginClaimsVer(row) == row.token_version

\* login, lines 66-87: the two tokens
LoginFinish(r) ==
    LET a == CreateAccessToken(r.uid, LoginClaimsVer(r.row), 1, 0)
        f == CreateRefreshToken(r.uid, LoginClaimsVer(r.row), 2)
    IN  /\ r \in Pending("login")
        /\ Finish(r)
        /\ tokens' = tokens \cup {a, f}
        /\ last' = Resp("login", 0, 200, "Login successful", <<r.uid, a.jti, f.jti>>)
        /\ UNCHANGED <<db, cache, redisUp, now, history>>

(* ------------------------------- refresh ------------------------------- *)
\* refresh, lines 90-102: the decorator and the early returns
RefreshCheck(t) ==
    LET v == VerifyJwt(t, TRUE)
    IN  IF v # "ok" THEN JwtError("refresh", t, v)
        ELSE IF ~UserExists(t.sub)
        THEN Resp("refresh", t.jti, 404, "User not found", <<>>)
        ELSE IF TokenVersionMismatch(t.sub, t.ver)
        THEN Resp("refresh", t.jti, 401, "Token no longer valid", <<>>)
        ELSE NoResp

RefreshBegin(t) ==
    /\ AnswerOrStart(RefreshCheck(t), Request("refresh", t.jti, t.sub, users[t.sub]))
    /\ UNCHANGED <<db, tokens, cache, redisUp, now, history>>

\* additional_claims={"ver": user.token_version}
RefreshClaimsVer(row) == row.token_version

\* a rotating refresh: the refresh token presented is retired
RefreshIssueRotating(r, a) == {t \in tokens : t.jti # r.jti} \cup {a}

\* the tokens in existence after refresh has answered with access token a:
\* the refresh token is neither rotated nor revoked
RefreshIssue(r, a) == tokens \cup {a}

\* refresh, lines 104-110: the new access token
RefreshFinish(r) ==
    LET a == CreateAccessToken(r.uid, RefreshClaimsVer(r.row), 1, r.jti)
    IN  /\ r \in Pending("refresh")
        /\ Finish(r)
        /\ tokens' = RefreshIssue(r, a)
        /\ last' = Resp("refresh", r.jti, 200, "", <<a.jti>>)
        /\ UNCHANGED <<db, cache, redisUp, now, history>>

(* ---------------------- logout and logout_refresh ---------------------- *)
\* the decorator of logout (refresh = FALSE) and logout_refresh (TRUE)
LogoutCheck(op, refresh, t) ==
    LET v == VerifyJwt(t, refresh)
    IN  IF v # "ok" THEN JwtError(op, t, v) ELSE NoResp

\* the handler: revoke_jti_with_ttl, then 200
LogoutWith(op, refresh, okmsg, t) ==
    /\ IF LogoutCheck(op, refresh, t) # NoResp
       THEN /\ last' = LogoutCheck(op, refresh, t)
            /\ UNCHANGED <<cache, loggedOut>>
       ELSE /\ cache' = RevokeJtiWithTtl(t)
            /\ last' = Resp(op, t.jti, 200, okmsg, <<>>)
            /\ loggedOut' = loggedOut \cup {t.jti}
    /\ UNCHANGED <<db, tokens, redisUp, now, inflight, revokedUpTo>>

Logout(t) == LogoutWith("logout", FALSE, "Logged out", t)

LogoutRefresh(t) == LogoutWith("logout_refresh", TRUE, "Refresh token revoked", t)

(* ----------------------------- logout_all ------------------------------ *)
\* logout_all, lines 127-139: the decorator and the early returns
LogoutAllCheck(t) ==
    LET v == VerifyJwt(t, FALSE)
    IN  IF v # "ok" THEN JwtError("logout_all", t, v)
        ELSE IF ~UserExists(t.sub)
        THEN Resp("logout_all", t.jti, 404, "User not found", <<>>)
        ELSE IF TokenVersionMismatch(t.sub, t.ver)
        THEN Resp("logout_all", t.jti, 401, "Token no longer valid", <<>>)
        ELSE NoResp

LogoutAllBegin(t) ==
    /\ AnswerOrStart(LogoutAllCheck(t),
                     Request("logout_all", t.jti, t.sub, users[t.sub]))
    /\ UNCHANGED <<db, tokens, cache, redisUp, now, history>>

\* user.token_version += 1 on the ORM object: the value the UPDATE writes
BumpedVersion(row) == row.token_version + 1

\* a logout_all that also puts the presented token on the blocklist
LogoutAllCommitRevoking(r) ==
    /\ r \in Pending("logout_all")
    /\ Finish(r)
    /\ users' = [users EXCEPT ![r.uid].token_version = BumpedVersion(r.row)]
    /\ cache' = RevokeJtiWithTtl(TokenOf(r.jti))
    /\ last' = Resp("logout_all", r.jti, 200, "All sessions revoked", <<>>)
    /\ revokedUpTo' =
          [revokedUpTo EXCEPT ![r.uid] = IF r.mark > @ THEN r.mark ELSE @]
    /\ UNCHANGED <<quiz, tokens, redisUp, now, loggedOut>>

\* db.session.commit(): UPDATE users SET token_version = <value> WHERE id = uid
LogoutAllCommit(r) ==
    /\ r \in Pending("logout_all")
    /\ Finish(r)
    /\ users' = [users EXCEPT ![r.uid].token_version = BumpedVersion(r.row)]
    /\ last' = Resp("logout_all", r.jti, 200, "All sessions revoked", <<>>)
    /\ revokedUpTo' =
          [revokedUpTo EXCEPT ![r.uid] = IF r.mark > @ THEN r.mark ELSE @]
    /\ UNCHANGED <<quiz, tokens, cache, redisUp, now, loggedOut>>

(* -------------------------- me and test_route -------------------------- *)
\* a me that compares ver before the decorator has its say
MeResponseEpochFirst(t) ==
    LET v == VerifyJwt(t, FALSE)
    IN  IF v \in {"ok", "revoked"} /\ TokenVersionMismatch(t.sub, t.ver)
        THEN Resp("me", t.jti, 401, "Token no longer valid", <<>>)
        ELSE IF v # "ok" THEN JwtError("me", t, v)
        ELSE Resp("me", t.jti, 200, "", <<t.sub, users[t.sub].email>>)

\* the response of me to token t in the current state
MeResponse(t) ==
    LET v == VerifyJwt(t, FALSE)
    IN  IF v # "ok" THEN JwtError("me", t, v)
        ELSE IF ~UserExists(t.sub)
        THEN Resp("me", t.jti, 404, "User not found", <<>>)
        ELSE IF TokenVersionMismatch(t.sub, t.ver)
        THEN Resp("me", t.jti, 401, "Token no longer valid", <<>>)
        ELSE Resp("me", t.jti, 200, "", <<t.sub, users[t.sub].email>>)

Me(t) ==
    /\ last' = MeResponse(t)
    /\ UNCHANGED <<db, tokens, cache, redisUp, now, inflight, history>>

\* the response of test_route to token t in the current state
TestRouteResponse(t) ==
    LET v == VerifyJwt(t, FALSE)
    IN  IF v # "ok" THEN JwtError("test_route", t, v)
        ELSE Resp("test_route", t.jti, 200, "This is a test route", <<>>)

TestRoute(t) ==
    /\ last' = TestRouteResponse(t)
    /\ UNCHANGED <<db, tokens, cache, redisUp, now, inflight, history>>

(* ----------------------------- list_sessions --------------------------- *)
\* the response of list_sessions to token t: the ids of the sessions of the
\* token's subject; like every handler of test_sessions_routes.py it is
\* guarded by @jwt_required() alone
ListSessionsResponse(t) ==
    LET v == VerifyJwt(t, FALSE)
    IN  IF v # "ok" THEN JwtError("list_sessions", t, v)
        ELSE Resp("list_sessions", t.jti, 200, "",
                  SelectSeq([i \in DOMAIN sessions |-> i],
                            LAMBDA i : sessions[i].user_id = t.sub))

ListSessions(t) ==
    /\ last' = ListSessionsResponse(t)
    /\ UNCHANGED <<db, tokens, cache, redisUp, now, inflight, history>>

(* ----------------------------- environment ----------------------------- *)
\* one tick of the clock; Redis drops the keys whose TTL has run out
Tick ==
    /\ now < MaxTime
    /\ now' = now + 1
    /\ cache' = [j \in {k \in DOMAIN cache : cache[k] > now + 1} |-> cache[j]]
    /\ UNCHANGED <<db, tokens, redisUp, inflight, last, history>>

\* the Redis server becomes unreachable, or reachable again
RedisFlip ==
    /\ redisUp' = ~redisUp
    /\ UNCHANGED <<db, tokens, cache, now, inflight, last, history>>

(* -------------------------------- Next --------------------------------- *)
\* the response on the wire reaches its client
Deliver ==
    /\ ~Idle
    /\ last' = NoResp
    /\ UNCHANGED <<db, tokens, cache, redisUp, now, inflight, history>>

\* a free worker takes a request and its handler runs up to its first
\* database round trip; max bounds the tokens ever issued
PostLogin(max) ==
    /\ Idle /\ FreeWorker /\ TokensLeft(max, 2)
    /\ \E e \in RawEmails, p \in RawPasswords : LoginBegin(e, p)

PostRefresh(max) ==
    Idle /\ FreeWorker /\ TokensLeft(max, 1) /\ \E t \in tokens : RefreshBegin(t)

PostLogout == Idle /\ FreeWorker /\ \E t \in tokens : Logout(t)

PostLogoutRefresh == Idle /\ FreeWorker /\ \E t \in tokens : LogoutRefresh(t)

PostLogoutAll == Idle /\ FreeWorker /\ \E t \in tokens : LogoutAllBegin(t)

GetMe == Idle /\ FreeWorker /\ \E t \in tokens : Me(t)

GetTest == Idle /\ FreeWorker /\ \E t \in tokens : TestRoute(t)

GetSessions == Idle /\ FreeWorker /\ \E t \in tokens : ListSessions(t)

\* a request in progress runs to its response
LoginReturns == Idle /\ \E r \in BagToSet(inflight) : LoginFinish(r)

RefreshReturns == Idle /\ \E r \in BagToSet(inflight) : RefreshFinish(r)

LogoutAllReturns == Idle /\ \E r \in BagToSet(inflight) : LogoutAllCommit(r)

ClockTick == Idle /\ Tick

RedisFault == Idle /\ RedisFlip

Next ==
    \/ PostLogin(MaxTokens)
    \/ LoginReturns
    \/ PostRefresh(MaxTokens)
    \/ RefreshReturns
    \/ PostLogout
    \/ PostLogoutRefresh
    \/ PostLogoutAll
    \/ LogoutAllReturns
    \/ GetMe
    \/ GetTest
    \/ GetSessions
    \/ ClockTick
    \/ RedisFault
    \/ Deliver

Spec == Init /\ [][Next]_vars

(* ------------------------------ register ------------------------------- *)
\* register, lines 27-37: the early returns
RegisterCheck(first, lastn, raw, pw) ==
    IF Strip(first) = <<>> \/ Strip(lastn) = <<>> \/ NormaliseEmail(raw) = <<>> \/ pw = ""
    THEN Resp("register", 0, 400, "Missing required fields", <<>>)
    ELSE IF FindByEmail(NormaliseEmail(raw)) # 0
    THEN Resp("register", 0, 400, "User already exists", <<>>)
    ELSE NoResp

\* the request goes on with the User object it will add
RegisterBegin(first, lastn, raw, pw) ==
    /\ AnswerOrStart(RegisterCheck(first, lastn, raw, pw),
                     Request("register", 0, 0,
                             NewUser(Strip(first), Strip(lastn), NormaliseEmail(raw),
                                     GeneratePasswordHash(pw))))
    /\ UNCHANGED <<db, tokens, cache, redisUp, now, history>>

\* the table after the INSERT of row
InsertUser(row) == Append(users, row)

\* register, lines 48-51: the INSERT; the unique index on email refuses a
\* second row of the same address (IntegrityError, not handled: 500)
RegisterCommit(r) ==
    /\ r \in Pending("register")
    /\ Finish(r)
    /\ IF FindByEmail(r.row.email) # 0
       THEN /\ last' = Resp("register", 0, 500, "Internal Server Error", <<>>)
            /\ UNCHANGED users
       ELSE /\ users' = InsertUser(r.row)
            /\ last' = Resp("register", 0, 201, "User registered successfully", <<>>)
    /\ UNCHANGED <<quiz, tokens, cache, redisUp, now, history>>

PostRegister ==
    /\ Idle /\ FreeWorker
    /\ \E first \in RawNames, lastn \in RawNames,
          e \in RegisterEmails, p \in RegisterPasswords :
           RegisterBegin(first, lastn, e, p)

RegisterReturns == Idle /\ \E r \in BagToSet(inflight) : RegisterCommit(r)

\* no user has registered yet
InitRegister ==
    /\ users = <<>>
    /\ sessions = <<>>
    /\ session_categories = <<>>
    /\ answers = <<>>
    /\ tokens = {}
    /\ cache = <<>>
    /\ redisUp = TRUE
    /\ now = 0
    /\ inflight = EmptyBag
    /\ last = NoResp
    /\ revokedUpTo = [u \in DOMAIN Registered |-> 0]
    /\ loggedOut = {}

\* every handler, on a reachable Redis and within one tick of the clock
NextRegister ==
    \/ PostRegister
    \/ RegisterReturns
    \/ PostLogin(RegTokens)
    \/ LoginReturns
    \/ PostRefresh(RegTokens)
    \/ RefreshReturns
    \/ PostLogout
    \/ PostLogoutRefresh
    \/ PostLogoutAll
    \/ LogoutAllReturns
    \/ GetMe
    \/ GetTest
    \/ GetSessions
    \/ Deliver

SpecRegister == InitRegister /\ [][NextRegister]_vars

(* ------------------- logout with the clock running --------------------- *)
\* logout and logout_refresh in two steps: the decorator verifies the token,
\* and the handler, which reads the clock again, revokes it
LogoutVerify(op, refresh, t) ==
    /\ AnswerOrStart(LogoutCheck(op, refresh, t), Request(op, t.jti, t.sub, <<>>))
    /\ UNCHANGED <<db, tokens, cache, redisUp, now, history>>

LogoutRevoke(r) ==
    /\ r \in Pending("logout") \cup Pending("logout_refresh")
    /\ Finish(r)
    /\ cache' = RevokeJtiWithTtl(TokenOf(r.jti))
    /\ last' = Resp(r.op, r.jti, 200,
                    IF r.op = "logout" THEN "Logged out" ELSE "Refresh token revoked",
                    <<>>)
    /\ loggedOut' = loggedOut \cup {r.jti}
    /\ UNCHANGED <<db, tokens, redisUp, now, revokedUpTo>>

LogoutVerifies ==
    /\ Idle /\ FreeWorker
    /\ \E t \in tokens :
          \/ LogoutVerify("logout", FALSE, t)
          \/ LogoutVerify("logout_refresh", TRUE, t)

LogoutRevokes == Idle /\ \E r \in BagToSet(inflight) : LogoutRevoke(r)

NextTtl ==
    \/ PostLogin(TtlTokens)
    \/ LoginReturns
    \/ LogoutVerifies
    \/ LogoutRevokes
    \/ ClockTick
    \/ RedisFault
    \/ Deliver

SpecTtl == Init /\ [][NextTtl]_vars

(* ---------------------- racing login, refresh, logout_all -------------- *)
\* one user's requests racing against the users table: no clock, no Redis
\* fault, tokens up to RaceTokens
NextRace ==
    \/ PostLogin(RaceTokens)
    \/ LoginReturns
    \/ PostRefresh(RaceTokens)
    \/ RefreshReturns
    \/ PostLogoutAll
    \/ LogoutAllReturns
    \/ GetMe
    \/ Deliver

SpecRace == Init /\ [][NextRace]_vars

(* ------------------------- vocabulary of the claims -------------------- *)
\* the token's ver is its subject's token_version
Current(t) == users[t.sub].token_version = t.ver

Unexpired(t) == t.exp > now

\* the token's jti is in the revocation cache, reachable or not
InCache(t) == t.jti \in DOMAIN cache /\ cache[t.jti] > now

\* issued before a logout_all call of its subject that has answered 200
IssuedBeforeLogoutAll(t) == t.jti <= revokedUpTo[t.sub]

\* this step answers a request made with token t, with this code, from op
Answers(t, ops, code) ==
    /\ last = NoResp
    /\ last'.op \in ops /\ last'.jti = t.jti /\ last'.code = code

\* this step lets a handler that goes on to a second step pass token t
Passes(t) ==
    \E r \in BagToSet(inflight') :
        r.jti = t.jti /\ CopiesIn(r, inflight') > CopiesIn(r, inflight)

AccessOps == {"me", "logout", "logout_all", "test_route", "list_sessions"}
RefreshOps == {"refresh", "logout_refresh"}

\* the operations that check the token and answer in one step
AtomicOps == {"me", "logout", "logout_refresh", "test_route", "list_sessions"}

(* --------------------------------- C4 ---------------------------------- *)
\* C4: every logout_all that answers 200 leaves its user's token_version
\* exactly one higher than it was when the answer was committed, so that N
\* successful calls raise it by N and no two callers produce the same value.
C4_EachLogoutAllAddsOne ==
    [][\A t \in tokens :
          Answers(t, {"logout_all"}, 200) =>
              users'[t.sub].token_version = users[t.sub].token_version + 1]_vars

(* --------------------------------- C1 ---------------------------------- *)
\* the operation that takes tokens of t's kind turns t down with 401, and as
\* "Token no longer valid" when the decorator lets it through
StaleRejected(t) ==
    IF t.kind = "access"
    THEN /\ MeResponse(t).code = 401
         /\ LogoutAllCheck(t).code = 401
         /\ VerifyJwt(t, FALSE) = "ok" =>
               /\ MeResponse(t).msg = "Token no longer valid"
               /\ LogoutAllCheck(t).msg = "Token no longer valid"
    ELSE /\ RefreshCheck(t).code = 401
         /\ VerifyJwt(t, TRUE) = "ok" => RefreshCheck(t).msg = "Token no longer valid"

\* C1: every token issued before a logout_all call of its subject that has
\* answered 200 is turned down as stale by me, refresh and logout_all from then
\* on; the tokens a login has just issued from the current token_version are
\* accepted.
C1_LogoutAllInvalidatesEarlierTokens ==
    /\ \A t \in tokens : IssuedBeforeLogoutAll(t) => StaleRejected(t)
    /\ last.op = "login" /\ last.code = 200 =>
          /\ Current(TokenOf(last.out[2])) => MeResponse(TokenOf(last.out[2])).code = 200
          /\ Current(TokenOf(last.out[3])) => RefreshCheck(TokenOf(last.out[3])) = NoResp

(* --------------------------------- C6 ---------------------------------- *)
\* C6: logout_all lets a token pass only if it is an unexpired, unrevoked
\* access token whose ver is its subject's token_version; and a user's
\* token_version changes only in a step that answers 200 to a logout_all
\* presented with a token of that user whose ver is the token_version being
\* replaced, and then it grows by one.
C6_OnlyCurrentTokenOfSubjectBumps ==
    [][/\ \A t \in tokens :
             LogoutAllCheck(t) = NoResp =>
                 t.kind = "access" /\ Unexpired(t) /\ Current(t)
       /\ \A u \in DOMAIN users :
             users'[u].token_version # users[u].token_version =>
                 \E t \in tokens :
                     /\ Answers(t, {"logout_all"}, 200)
                     /\ t.sub = u
                     /\ t.ver = users[u].token_version
                     /\ users'[u].token_version = users[u].token_version + 1]_vars

(* --------------------------------- C8 ---------------------------------- *)
\* C8: an access token minted by refresh from a refresh token that was issued
\* before a logout_all call of its user that has answered 200 is never
\* accepted by me.
C8_NoAccessFromRevokedRefresh ==
    \A a \in tokens :
        a.parent # 0 /\ IssuedBeforeLogoutAll(TokenOf(a.parent)) =>
            MeResponse(a).code # 200

(* --------------------------------- C2 ---------------------------------- *)
\* C2: whenever a token-protected operation accepts a token (a one-step
\* operation answers 200 to it, or refresh or logout_all lets it pass its
\* checks), the token is at that moment unexpired, of its subject's current
\* token_version, and not in the revocation cache; a cache that cannot be
\* reached is taken to hold nothing (fail-open).
C2_AccessOnlyToValidTokens ==
    [][\A t \in tokens :
          Answers(t, AtomicOps, 200) \/ Passes(t) =>
              Unexpired(t) /\ Current(t) /\ (redisUp => ~InCache(t))]_vars

(* --------------------------------- C9 ---------------------------------- *)
\* C9: logout (logout_refresh) called with an access (refresh) token that is
\* already in the revocation cache, or already expired, answers 200 and
\* changes nothing.
C9_LogoutIdempotent ==
    [][\A t \in tokens :
          /\ last = NoResp
          /\ last'.jti = t.jti
          /\ \/ last'.op = "logout" /\ t.kind = "access"
             \/ last'.op = "logout_refresh" /\ t.kind = "refresh"
          /\ InCache(t) \/ ~Unexpired(t)
          => last'.code = 200 /\ UNCHANGED <<db, tokens, cache>>]_vars

(* --------------------------------- C3 ---------------------------------- *)
\* the operation that takes tokens of t's kind accepts t
Accepted(t) ==
    IF t.kind = "access"
    THEN /\ MeResponse(t).code = 200
         /\ TestRouteResponse(t).code = 200
         /\ LogoutCheck("logout", FALSE, t) = NoResp
    ELSE /\ RefreshCheck(t) = NoResp
         /\ LogoutCheck("logout_refresh", TRUE, t) = NoResp

\* C3: once logout has answered 200 for an access token, a verification of
\* that token that reaches the cache before the token expires finds it
\* revoked; and every other token that is unexpired, has not been logged out
\* itself and is of its user's current token_version is still accepted.
C3_LoggedOutTokenIsRevoked ==
    /\ \A t \in tokens :
          t.kind = "access" /\ t.jti \in loggedOut /\ redisUp /\ Unexpired(t) =>
              VerifyJwt(t, FALSE) = "revoked"
    /\ \A o \in tokens :
          o.jti \notin loggedOut /\ Unexpired(o) /\ Current(o) => Accepted(o)

(* --------------------------------- C5 ---------------------------------- *)
\* C5: while Redis is unreachable, every unexpired token passes the decorator
\* of the operations of its kind, every such token of its user's current
\* token_version is accepted by them, and no response says the token is
\* revoked.
C5_CacheFaultFailsOpen ==
    /\ ~redisUp => \A t \in tokens :
          Unexpired(t) =>
              /\ VerifyJwt(t, t.kind = "refresh") = "ok"
              /\ Current(t) =>
                    /\ Accepted(t)
                    /\ t.kind = "access" =>
                          /\ LogoutAllCheck(t) = NoResp
                          /\ ListSessionsResponse(t).code = 200
    /\ ~redisUp => last.msg # "Token has been revoked"

\* me has answered 200 during the outage to a token whose jti is in the cache
C5_Witness ==
    /\ ~redisUp
    /\ last.op = "me" /\ last.code = 200
    /\ last.jti \in DOMAIN cache /\ cache[last.jti] > now

(* --------------------------------- C7 ---------------------------------- *)
\* C7: the step in which refresh answers 200 to refresh token p adds exactly
\* one token: an unexpired access token of p's user, stamped with the
\* token_version the request read, whose jti is the one returned and is not
\* in the cache, and which me, test_route and list_sessions accept if that
\* version is still the user's; the step leaves the tables and the cache
\* alone, and p stands with refresh as it did before.  A refresh token that
\* is unexpired, not found revoked and of its user's current token_version
\* passes the checks of refresh whatever has been minted from it.
C7_RefreshKeepsRefreshToken ==
    [][\A p \in tokens :
          /\ Answers(p, {"refresh"}, 200) =>
                /\ \E a \in tokens' \ tokens :
                      /\ tokens' = tokens \cup {a}
                      /\ last'.out = <<a.jti>>
                      /\ a.kind = "access" /\ a.sub = p.sub /\ a.parent = p.jti
                      /\ \E r \in Pending("refresh") :
                            r.jti = p.jti /\ a.ver = r.row.token_version
                      /\ a.exp > now /\ a.jti \notin DOMAIN cache
                      /\ a.ver = users[a.sub].token_version =>
                            /\ MeResponse(a)'.code = 200
                            /\ TestRouteResponse(a)'.code = 200
                            /\ ListSessionsResponse(a)'.code = 200
                /\ UNCHANGED <<db, cache>>
                /\ RefreshCheck(p)' = RefreshCheck(p)
          /\ p.kind = "refresh" /\ Unexpired(p) /\ ~TokenInBlocklist(p) /\ Current(p) =>
                RefreshCheck(p) = NoResp]_vars

\* refresh has answered 200; its refresh token still passes the checks of
\* refresh and me accepts the access token returned
C7_Witness ==
    /\ last.op = "refresh" /\ last.code = 200
    /\ \E p \in tokens : p.jti = last.jti /\ RefreshCheck(p) = NoResp
    /\ \E a \in tokens : a.jti = last.out[1] /\ MeResponse(a).code = 200

(* --------------------------------- C10 --------------------------------- *)
\* C10: refresh and logout_refresh turn down every access token, and me,
\* logout, logout_all, test_route and list_sessions turn down every refresh
\* token, whatever else holds of the token; no 200 and no request in progress
\* belongs to a token of the wrong kind.  (Requests are taken only when no
\* response is on the wire, and Deliver changes nothing but last: the answers
\* a request would get are read in those states.)
C10_KindsNotInterchangeable ==
    /\ Idle => \A t \in tokens :
          IF t.kind = "access"
          THEN /\ RefreshCheck(t) # NoResp
               /\ LogoutCheck("logout_refresh", TRUE, t) # NoResp
          ELSE /\ MeResponse(t).code # 200
               /\ TestRouteResponse(t).code # 200
               /\ ListSessionsResponse(t).code # 200
               /\ LogoutCheck("logout", FALSE, t) # NoResp
               /\ LogoutAllCheck(t) # NoResp
    /\ last.code = 200 /\ last.op \in RefreshOps => TokenOf(last.jti).kind = "refresh"
    /\ last.code = 200 /\ last.op \in AccessOps => TokenOf(last.jti).kind = "access"
    /\ \A r \in BagToSet(inflight) :
          /\ r.op = "refresh" => TokenOf(r.jti).kind = "refresh"
          /\ r.op = "logout_all" => TokenOf(r.jti).kind = "access"

\* refresh has answered 422 to an access token that me accepts
C10_Witness ==
    /\ last.op = "refresh" /\ last.code = 422
    /\ last.msg = "Only refresh tokens are allowed"
    /\ MeResponse(TokenOf(last.jti)).code = 200

(* --------------------------------- C11 --------------------------------- *)
\* the answer "Token has expired" of operation op to token t
ExpiredResponse(op, t) == Resp(op, t.jti, 401, "Token has expired", <<>>)

\* C11: a token whose exp has passed gets 401 "Token has expired" from every
\* token-protected operation, of its kind or not, whatever the state of Redis,
\* of the cache and of its user's token_version; and no one-step operation
\* has answered 200 to an expired token.  (The answers a request would get
\* are read in the states where a request can be taken.)
C11_ExpiredAlwaysRejected ==
    /\ Idle => \A t \in tokens :
          ~Unexpired(t) =>
              /\ MeResponse(t) = ExpiredResponse("me", t)
              /\ TestRouteResponse(t) = ExpiredResponse("test_route", t)
              /\ ListSessionsResponse(t) = ExpiredResponse("list_sessions", t)
              /\ LogoutCheck("logout", FALSE, t) = ExpiredResponse("logout", t)
              /\ LogoutCheck("logout_refresh", TRUE, t) = ExpiredResponse("logout_refresh", t)
              /\ RefreshCheck(t) = ExpiredResponse("refresh", t)
              /\ LogoutAllCheck(t) = ExpiredResponse("logout_all", t)
    /\ last.code = 200 /\ last.op \in AtomicOps => Unexpired(TokenOf(last.jti))

\* me has answered "Token has expired" during a Redis outage to a token whose
\* ver is no longer its user's token_version
C11_Witness ==
    /\ last.op = "me" /\ last.code = 401 /\ last.msg = "Token has expired"
    /\ ~redisUp
    /\ ~Current(TokenOf(last.jti))

(* --------------------------------- C12 --------------------------------- *)
\* C12: every user's token_version is at least 1 and no step lowers it.
C12_TokenVersionNeverDecreases ==
    [][/\ \A u \in DOMAIN users : users[u].token_version >= 1
       /\ \A u \in DOMAIN users :
             users'[u].token_version >= users[u].token_version]_vars

(* --------------------------------- C13 --------------------------------- *)
\* C13: a user's token_version changes only in a step in which logout_all
\* answers 200 to a token of that user; a row appears only in a step in which
\* register answers 201, and then with token_version 1; no row disappears.
C13_OnlyLogoutAllChangesVersion ==
    [][/\ DOMAIN users \subseteq DOMAIN users'
       /\ \A u \in DOMAIN users :
             users'[u].token_version # users[u].token_version =>
                 /\ last = NoResp
                 /\ last'.op = "logout_all" /\ last'.code = 200
                 /\ TokenOf(last'.jti).sub = u
       /\ \A u \in DOMAIN users' \ DOMAIN users :
             /\ users'[u].token_version = 1
             /\ last'.op = "register" /\ last'.code = 201]_vars

\* register has created a row next to a user whose token_version logout_all
\* has raised
C13_Witness ==
    /\ last.op = "register" /\ last.code = 201
    /\ \E u \in DOMAIN users : users[u].token_version = 2
    /\ users[Len(users)].token_version = 1

(* --------------------------------- C14 --------------------------------- *)
\* strip and lower-case, as the claim defines the normalised address
SameAddress(e1, e2) == Lower(Strip(e1)) = Lower(Strip(e2))

\* C14: once a row holds an address, register called with all fields present
\* and an e-mail that normalises to that address answers 400 "User already
\* exists"; every register call that does not answer 201 leaves the users
\* table as it was; and no two rows hold the same address.
C14_DuplicateEmailRefused ==
    [][/\ \A first \in RawNames, lastn \in RawNames,
            e \in RegisterEmails, p \in RegisterPasswords :
             /\ Strip(first) # <<>> /\ Strip(lastn) # <<>> /\ p # ""
             /\ \E u \in DOMAIN users : SameAddress(users[u].email, e)
             => RegisterCheck(first, lastn, e, p)
                    = Resp("register", 0, 400, "User already exists", <<>>)
       /\ last = NoResp /\ last'.op = "register" /\ last'.code # 201 =>
             UNCHANGED <<db, tokens, cache>>
       /\ \A u \in DOMAIN users, w \in DOMAIN users :
             SameAddress(users[u].email, users[w].email) => u = w]_vars

\* register has answered "User already exists"
C14_Witness ==
    /\ last.op = "register" /\ last.code = 400
    /\ last.msg = "User already exists"
    /\ users # <<>>

(* --------------------------------- C15 --------------------------------- *)
\* C15: when login has answered 200, me called next with the access token
\* returned answers 200 with the user_id of the login response and that
\* user's e-mail, provided no logout_all of that user has committed since the
\* login read the row (the token is of the current token_version).
C15_LoginThenMe ==
    last.op = "login" /\ last.code = 200 =>
        \E a \in tokens :
            /\ a.jti = last.out[2]
            /\ a.kind = "access"
            /\ a.sub = last.out[1]
            /\ Current(a) =>
                  MeResponse(a) = Resp("me", a.jti, 200, "",
                                       <<last.out[1], users[last.out[1]].email>>)

\* login has answered 200 and me accepts the access token
C15_Witness ==
    /\ last.op = "login" /\ last.code = 200
    /\ MeResponse(TokenOf(last.out[2])).code = 200
    /\ MeResponse(TokenOf(last.out[2])).out[1] = last.out[1]

(* --------------------------------- C16 --------------------------------- *)
\* C16: the step in which login answers 200 adds exactly two tokens, one
\* access and one refresh, both of the user the request authenticated and
\* both stamped with the token_version of the row that request read, and
\* changes nothing else; login lets a request pass only for a registered
\* address with its password, answers 401 "Invalid email or password" to an
\* unknown address or a wrong password, and a login that does not answer 200
\* issues no token and changes nothing.
C16_LoginIssuesOnePair ==
    [][/\ last = NoResp /\ last'.op = "login" /\ last'.code = 200 =>
             /\ \E r \in Pending("login"), a \in tokens' \ tokens, f \in tokens' \ tokens :
                   /\ tokens' = tokens \cup {a, f}
                   /\ a.kind = "access" /\ f.kind = "refresh"
                   /\ a.sub = r.uid /\ f.sub = r.uid
                   /\ a.ver = r.row.token_version /\ f.ver = r.row.token_version
                   /\ last'.out = <<r.uid, a.jti, f.jti>>
             /\ UNCHANGED <<db, cache>>
       /\ \A r \in BagToSet(inflight') :
             r.op = "login" /\ CopiesIn(r, inflight') > CopiesIn(r, inflight) =>
                 r.uid \in DOMAIN users /\ r.row = users[r.uid]
       /\ \A e \in RawEmails, p \in RawPasswords :
             LET uid == FindByEmail(Lower(Strip(e)))
             IN  /\ LoginCheck(e, p) = NoResp =>
                       uid # 0 /\ CheckPasswordHash(users[uid].password, p)
                 /\ Strip(e) # <<>> /\ p # ""
                    /\ (uid = 0 \/ ~CheckPasswordHash(users[uid].password, p))
                    => LoginCheck(e, p)
                           = Resp("login", 0, 401, "Invalid email or password", <<>>)
       /\ last = NoResp /\ last'.op = "login" /\ last'.code # 200 =>
             UNCHANGED <<db, tokens, cache, inflight>>]_vars

\* login has answered 200 with the jtis of an access and a refresh token
C16_Witness ==
    /\ last.op = "login" /\ last.code = 200
    /\ TokenOf(last.out[2]).kind = "access"
    /\ TokenOf(last.out[3]).kind = "refresh"
    /\ TokenOf(last.out[3]).ver = users[last.out[1]].token_version

(* --------------------------------- C17 --------------------------------- *)
\* max(1, exp - now), as the claim states the TTL
ClaimedTtl(t) == IF t.exp - now >= 1 THEN t.exp - now ELSE 1

\* this step answers 200 to logout or logout_refresh of token t
Revokes(t) ==
    /\ last = NoResp
    /\ last'.op \in {"logout", "logout_refresh"}
    /\ last'.jti = t.jti /\ last'.code = 200

\* C17 (as the code has it): a logout or logout_refresh that answers 200 on a
\* reachable Redis stores the token's jti with TTL max(1, exp - now), from the
\* token's own exp and at least 1, and touches no other entry; an entry
\* expires at its token's exp, or, when the token had expired by the time the
\* handler read the clock, one second after that reading; and an entry
\* disappears only when its TTL has run out, which is not before its token
\* has expired.
C17_TtlIsRemainingLifetime ==
    [][/\ \A t \in tokens :
             Revokes(t) /\ redisUp =>
                 /\ t.jti \in DOMAIN cache'
                 /\ cache'[t.jti] = now + ClaimedTtl(t)
                 /\ cache'[t.jti] - now >= 1
                 /\ \A j \in DOMAIN cache \ {t.jti} :
                       j \in DOMAIN cache' /\ cache'[j] = cache[j]
       /\ \A j \in DOMAIN cache :
             /\ cache[j] > now
             /\ \/ cache[j] = TokenOf(j).exp
                \/ TokenOf(j).exp <= now /\ cache[j] = now + 1
             /\ j \notin DOMAIN cache' =>
                   cache[j] <= now' /\ TokenOf(j).exp <= now']_vars

\* a logout has stored the jti of a token that had expired when the handler
\* read the clock: the TTL is the clamped 1
C17_Witness ==
    /\ last.op \in {"logout", "logout_refresh"} /\ last.code = 200
    /\ last.jti \in DOMAIN cache
    /\ TokenOf(last.jti).exp <= now
    /\ cache[last.jti] = now + 1

\* C17 (as claimed): every entry of the cache has a TTL of at least 1 left
\* and belongs to a token that has not been expired for more than one second:
\* an entry present during tick now is present up to now + 1, so its token's
\* exp is not before now.
C17_NoEntryForLongExpiredToken ==
    \A j \in DOMAIN cache :
        cache[j] > now /\ TokenOf(j).exp >= now

(* --------------------------------- C18 --------------------------------- *)
\* C18: a step of logout_all with token t, whether it turns the token down,
\* lets it pass its checks or answers 200, leaves the cache, the tokens and
\* the sessions as they were and changes no row but that of t's subject, and
\* of that row nothing but token_version; a call that does not answer 200
\* leaves that too.
C18_LogoutAllLeavesCache ==
    [][\A t \in tokens :
          \/ last = NoResp /\ last'.op = "logout_all" /\ last'.jti = t.jti
          \/ \E r \in BagToSet(inflight') :
                /\ r.op = "logout_all" /\ r.jti = t.jti
                /\ CopiesIn(r, inflight') > CopiesIn(r, inflight)
          => /\ UNCHANGED <<cache, tokens, quiz, redisUp, now>>
             /\ DOMAIN users' = DOMAIN users
             /\ \A u \in DOMAIN users : u # t.sub => users'[u] = users[u]
             /\ [users'[t.sub] EXCEPT !.token_version = 0]
                    = [users[t.sub] EXCEPT !.token_version = 0]
             /\ last'.code # 200 => users' = users]_vars

\* logout_all has answered 200 while the cache holds an entry
C18_Witness ==
    /\ last.op = "logout_all" /\ last.code = 200
    /\ DOMAIN cache # {}
    /\ users[TokenOf(last.jti).sub].token_version > 1

(* --------------------------------- C19 --------------------------------- *)
\* C19: a token for which logout or logout_refresh has answered 200 is from
\* then on turned down by the decorator of the operations of its kind, as
\* revoked while it is unexpired and as expired afterwards, whether or not
\* Redis was reachable at the logout or is reachable now.
C19_LoggedOutNeverAcceptedAgain ==
    \A t \in tokens :
        t.jti \in loggedOut =>
            VerifyJwt(t, t.kind = "refresh")
                = IF Unexpired(t) THEN "revoked" ELSE "expired"

(* --------------------------------- C20 --------------------------------- *)
\* C20: me, logout_all and refresh answer "Token has been revoked" to an
\* unexpired token of their kind that the blocklist check finds in the cache,
\* also when its ver is not its user's token_version; and a token they turn
\* down with "Token no longer valid" is one the blocklist check let pass.
C20_RevokedBeforeStale ==
    /\ \A t \in tokens :
          TokenInBlocklist(t) /\ Unexpired(t) /\ ~Current(t) =>
              IF t.kind = "access"
              THEN /\ MeResponse(t) = Resp("me", t.jti, 401, "Token has been revoked", <<>>)
                   /\ LogoutAllCheck(t)
                        = Resp("logout_all", t.jti, 401, "Token has been revoked", <<>>)
              ELSE RefreshCheck(t)
                        = Resp("refresh", t.jti, 401, "Token has been revoked", <<>>)
    /\ \A t \in tokens :
          TokenInBlocklist(t) =>
              /\ MeResponse(t).msg # "Token no longer valid"
              /\ LogoutAllCheck(t).msg # "Token no longer valid"
              /\ RefreshCheck(t).msg # "Token no longer valid"
    /\ last.msg = "Token no longer valid" => ~TokenInBlocklist(TokenOf(last.jti))

\* me has answered "Token has been revoked" to a token whose ver is not its
\* user's token_version
C20_Witness ==
    /\ last.op = "me" /\ last.code = 401 /\ last.msg = "Token has been revoked"
    /\ ~Current(TokenOf(last.jti))
    /\ Unexpired(TokenOf(last.jti))

(* --------------------------------- C21 --------------------------------- *)
\* C21: no two user rows have the same e-mail address, and register answers
\* 201, or 400 with "Missing required fields" or "User already exists", and
\* nothing else: of two concurrent registrations of one address the one that
\* does not succeed reports "User already exists".
C21_ConcurrentRegisterOneWinner ==
    /\ \A i, j \in DOMAIN users : users[i].email = users[j].email => i = j
    /\ last.op = "register" =>
          \/ last.code = 201
          \/ /\ last.code = 400
             /\ last.msg \in {"Missing required fields", "User already exists"}

(* ================================ quiz ================================== *)
(* The handlers of routes/test_sessions_routes.py.  A handler that writes   *)
(* is split at each of its database queries: the request carries what it    *)
(* has read so far (its ORM objects) to the next step, and its commit       *)
(* writes the columns the handler assigned.                                 *)
(* ------------------------------- bounds -------------------------------- *)
\* sessions ever created
MaxSessions == 1
\* question_count of the seeded category
QuestionCount == 1

\* NULL in a nullable column, None in Python
Null == -1

\* table test_categories, seeded before the application starts and changed
\* by no handler: row i is the category with id i
TestCategories == << [name |-> <<"c">>, question_count |-> QuestionCount] >>

(* ---------------------------- request bodies --------------------------- *)
\* a value of the JSON body: its JSON type and its literal text
Json(type, text) == [type |-> type, text |-> text]

\* the key is absent from the body
Missing == Json("missing", <<>>)

Digits == {"0", "1", "2", "3", "4", "5", "6", "7", "8", "9"}

DigitValue(c) ==
    CASE c = "0" -> 0 [] c = "1" -> 1 [] c = "2" -> 2 [] c = "3" -> 3
      [] c = "4" -> 4 [] c = "5" -> 5 [] c = "6" -> 6 [] c = "7" -> 7
      [] c = "8" -> 8 [] c = "9" -> 9

\* the number a sequence of decimal digits denotes
RECURSIVE DecimalValue(_)
DecimalValue(s) ==
    IF s = <<>> THEN 0
    ELSE 10 * DecimalValue(SubSeq(s, 1, Len(s) - 1)) + DigitValue(s[Len(s)])

AllDigits(s) == s # <<>> /\ \A i \in DOMAIN s : s[i] \in Digits

\* the digits of a float literal before its point
RECURSIVE IntegerPart(_)
IntegerPart(s) ==
    IF s = <<>> \/ Head(s) = "." THEN <<>>
    ELSE <<Head(s)>> \o IntegerPart(Tail(s))

\* int(data[key]) failed: KeyError, TypeError or ValueError
ParseError == [ok |-> FALSE, val |-> 0]

Parsed(n) == [ok |-> TRUE, val |-> n]

\* int(data[key]): a JSON integer is itself, a float is truncated, true is 1,
\* a string is parsed after stripping it; null raises TypeError, an absent
\* key KeyError, a string that is no integer literal ValueError
ParseInt(v) ==
    CASE v.type = "int" -> Parsed(DecimalValue(v.text))
      [] v.type = "float" -> Parsed(DecimalValue(IntegerPart(v.text)))
      [] v.type = "bool" -> Parsed(IF v.text = <<"t">> THEN 1 ELSE 0)
      [] v.type = "string" ->
            IF AllDigits(Strip(v.text)) THEN Parsed(DecimalValue(Strip(v.text)))
            ELSE ParseError
      [] OTHER -> ParseError

\* the values sent as category_id
RawCategoryIds == { Json("int", <<"1">>), Json("int", <<"2">>),
                    Json("string", <<"x">>), Missing }

\* the values sent as question_number
RawQuestionNumbers == { Json("int", <<"0">>), Json("int", <<"1">>),
                        Json("int", <<"2">>), Json("float", <<"1", ".", "5">>),
                        Json("null", <<>>) }

\* the values sent as answer_state, with the user_answer sent along
RawAnswers == { [answer_state |-> "1", user_answer |-> Null],
                [answer_state |-> "2", user_answer |-> Null] }

\* the session ids and category ids of the URLs requested
SessionIds == 1 .. MaxSessions
CategoryIds == 1 .. Len(TestCategories) + 1

(* ------------------------------ the tables ----------------------------- *)
\* a lookup of the session by its id alone, whoever owns it
FindSessionAnyOwner(sid, uid) == IF sid \in DOMAIN sessions THEN sid ELSE 0

\* UserTestSession.query.filter_by(id=session_id, user_id=uid).first():
\* the id, or 0 for None
FindSession(sid, uid) ==
    IF sid \in DOMAIN sessions /\ sessions[sid].user_id = uid THEN sid ELSE 0

\* SessionTestCategory.query.filter_by(session_id=..., category_id=...).first()
\* finds a row
HasSessionCategory(sid, cid) == <<sid, cid>> \in DOMAIN session_categories

\* the ids of the answers of a question, of a category, of a session
AnswersOfQuestion(sid, cid, qn) ==
    {i \in DOMAIN answers : /\ answers[i].session_id = sid
                            /\ answers[i].category_id = cid
                            /\ answers[i].question_number = qn}

AnswersOfCategory(sid, cid) ==
    {i \in DOMAIN answers : answers[i].session_id = sid /\ answers[i].category_id = cid}

AnswersOfSession(sid) == {i \in DOMAIN answers : answers[i].session_id = sid}

\* UserTestAnswer.query.filter_by(session_id, category_id, question_number)
\* .first(): the id, or 0 for None
FindAnswer(sid, cid, qn) ==
    IF AnswersOfQuestion(sid, cid, qn) = {} THEN 0
    ELSE CHOOSE i \in AnswersOfQuestion(sid, cid, qn) : TRUE

\* the ids of a set of rows in ascending order
RECURSIVE Ascending(_)
Ascending(S) ==
    IF S = {} THEN <<>>
    ELSE LET m == CHOOSE x \in S : \A y \in S : x <= y
         IN  <<m>> \o Ascending(S \ {m})

(* ------------------------- requests in progress ------------------------ *)
\* what a quiz request carries between its queries: the URL and body it came
\* with, the query it makes next (pc), and of its ORM objects the values read
\* (seen), the timestamps assigned (stamp, started; Null: not assigned) and
\* the answer found (existing; 0: none)
QuizRow(sid, cid, qn, ans, pc, stamp, started, seen, existing) ==
    [sid |-> sid, cid |-> cid, qn |-> qn, ans |-> ans, pc |-> pc, stamp |-> stamp,
     started |-> started, seen |-> seen, existing |-> existing]

NoAnswer == [answer_state |-> "", user_answer |-> Null]

\* the requests of kind op that make query pc next
PendingAt(op, pc) == {r \in Pending(op) : r.row.pc = pc}

\* request r goes on to its next query with what it has read
Advance(r, row) ==
    /\ inflight' = (inflight (-) SetToBag({r})) (+) SetToBag({[r EXCEPT !.row = row]})
    /\ last' = NoResp

\* request r answers
Answer(r, resp) == Finish(r) /\ last' = resp

(* ---------------------------- create_session --------------------------- *)
\* create_session, lines 25-32: the decorator and the early return
CreateSessionCheck(t) ==
    LET v == VerifyJwt(t, FALSE)
    IN  IF v # "ok" THEN JwtError("create_session", t, v)
        ELSE IF ~UserExists(t.sub)
        THEN Resp("create_session", t.jti, 404, "User not found", <<>>)
        ELSE NoResp

\* the rows of session_test_categories added for session sid: one per category
NewSessionCategories(sid) ==
    [k \in {<<sid, c>> : c \in DOMAIN TestCategories} |->
        [started_at |-> Null, completed_at |-> Null, was_corrected |-> FALSE]]

\* create_session, lines 34-51
CreateSession(t) ==
    /\ IF CreateSessionCheck(t) # NoResp
       THEN last' = CreateSessionCheck(t) /\ UNCHANGED quiz
       ELSE /\ Len(sessions) < MaxSessions
            /\ sessions' = Append(sessions, [user_id |-> t.sub, started_at |-> now,
                                             completed_at |-> Null])
            /\ session_categories' =
                  session_categories @@ NewSessionCategories(Len(sessions) + 1)
            /\ UNCHANGED answers
            /\ last' = Resp("create_session", t.jti, 201, "Session created",
                            <<Len(sessions) + 1, now>>)
    /\ UNCHANGED <<users, tokens, cache, redisUp, now, inflight, history>>

(* ------------------------------ read-only ------------------------------ *)
\* get_session: the session with its number of answers
GetSessionResponse(t, sid) ==
    LET v == VerifyJwt(t, FALSE)
    IN  IF v # "ok" THEN JwtError("get_session", t, v)
        ELSE IF FindSession(sid, t.sub) = 0
        THEN Resp("get_session", t.jti, 404, "Session not found", <<>>)
        ELSE Resp("get_session", t.jti, 200, "",
                  <<sid, sessions[sid].started_at, sessions[sid].completed_at,
                    Cardinality(AnswersOfSession(sid))>>)

GetSession(t, sid) ==
    /\ last' = GetSessionResponse(t, sid)
    /\ UNCHANGED <<db, tokens, cache, redisUp, now, inflight, history>>

\* list_session_categories: the categories of the session with their state
ListSessionCategoriesResponse(t, sid) ==
    LET v == VerifyJwt(t, FALSE)
    IN  IF v # "ok" THEN JwtError("list_session_categories", t, v)
        ELSE IF FindSession(sid, t.sub) = 0
        THEN Resp("list_session_categories", t.jti, 404, "Session not found", <<>>)
        ELSE Resp("list_session_categories", t.jti, 200, "",
                  [i \in 1 .. Cardinality({c \in DOMAIN TestCategories :
                                           HasSessionCategory(sid, c)}) |->
                     LET c == Ascending({d \in DOMAIN TestCategories :
                                         HasSessionCategory(sid, d)})[i]
                     IN  <<sid, c, session_categories[<<sid, c>>]>>])

ListSessionCategories(t, sid) ==
    /\ last' = ListSessionCategoriesResponse(t, sid)
    /\ UNCHANGED <<db, tokens, cache, redisUp, now, inflight, history>>

\* list_answers: the answers of the session
ListAnswersResponse(t, sid) ==
    LET v == VerifyJwt(t, FALSE)
    IN  IF v # "ok" THEN JwtError("list_answers", t, v)
        ELSE IF FindSession(sid, t.sub) = 0
        THEN Resp("list_answers", t.jti, 404, "Session not found", <<>>)
        ELSE Resp("list_answers", t.jti, 200, "",
                  [i \in 1 .. Cardinality(AnswersOfSession(sid)) |->
                     answers[Ascending(AnswersOfSession(sid))[i]]])

ListAnswers(t, sid) ==
    /\ last' = ListAnswersResponse(t, sid)
    /\ UNCHANGED <<db, tokens, cache, redisUp, now, inflight, history>>

(* --------------------------- complete_session -------------------------- *)
\* complete_session, lines 90-98: the decorator and the early returns
CompleteSessionCheck(t, sid) ==
    LET v == VerifyJwt(t, FALSE)
    IN  IF v # "ok" THEN JwtError("complete_session", t, v)
        ELSE IF FindSession(sid, t.sub) = 0
        THEN Resp("complete_session", t.jti, 404, "Session not found", <<>>)
        ELSE IF sessions[sid].completed_at # Null
        THEN Resp("complete_session", t.jti, 400, "Session already completed", <<>>)
        ELSE NoResp

\* line 100: session.completed_at = datetime.utcnow(), on the object read
CompleteSessionBegin(t, sid) ==
    /\ AnswerOrStart(CompleteSessionCheck(t, sid),
                     Request("complete_session", t.jti, t.sub,
                             QuizRow(sid, 0, 0, NoAnswer, "commit", now, Null, Null, 0)))
    /\ UNCHANGED <<db, tokens, cache, redisUp, now, history>>

\* lines 101-102: the UPDATE of the column assigned
CompleteSessionCommit(r) ==
    /\ r \in PendingAt("complete_session", "commit")
    /\ sessions' = [sessions EXCEPT ![r.row.sid].completed_at = r.row.stamp]
    /\ Answer(r, Resp("complete_session", r.jti, 200, "Session completed", <<>>))
    /\ UNCHANGED <<users, session_categories, answers, tokens, cache, redisUp, now,
                   history>>

(* --------------------------- complete_category ------------------------- *)
\* complete_category, lines 134-145: the decorator and the session
CompleteCategoryCheck(t, sid, cid) ==
    LET v == VerifyJwt(t, FALSE)
    IN  IF v # "ok" THEN JwtError("complete_category", t, v)
        ELSE IF FindSession(sid, t.sub) = 0
        THEN Resp("complete_category", t.jti, 404, "Session not found", <<>>)
        ELSE NoResp

CompleteCategoryBegin(t, sid, cid) ==
    /\ AnswerOrStart(CompleteCategoryCheck(t, sid, cid),
                     Request("complete_category", t.jti, t.sub,
                             QuizRow(sid, cid, 0, NoAnswer, "category", Null, Null,
                                     Null, 0)))
    /\ UNCHANGED <<db, tokens, cache, redisUp, now, history>>

\* lines 147-150: the per-session category row
CompleteCategoryReadCategory(r) ==
    /\ r \in PendingAt("complete_category", "category")
    /\ IF ~HasSessionCategory(r.row.sid, r.row.cid)
       THEN Answer(r, Resp("complete_category", r.jti, 404,
                           "Category not part of this session", <<>>))
       ELSE Advance(r, [r.row EXCEPT
                           !.pc = "answers",
                           !.seen = session_categories[<<r.row.sid, r.row.cid>>]
                                       .completed_at])
    /\ UNCHANGED <<db, tokens, cache, redisUp, now, history>>

\* the check that the category has an answer, left out
CompleteCategoryReadAnswersUnchecked(r) ==
    /\ r \in PendingAt("complete_category", "answers")
    /\ IF r.row.seen # Null
       THEN Answer(r, Resp("complete_category", r.jti, 400,
                           "Category already completed", <<>>))
       ELSE Advance(r, [r.row EXCEPT !.pc = "commit", !.stamp = now])
    /\ UNCHANGED <<db, tokens, cache, redisUp, now, history>>

\* lines 152-160: the category has an answer and the row read was not
\* completed; sc.completed_at = datetime.utcnow()
CompleteCategoryReadAnswers(r) ==
    /\ r \in PendingAt("complete_category", "answers")
    /\ IF AnswersOfCategory(r.row.sid, r.row.cid) = {}
       THEN Answer(r, Resp("complete_category", r.jti, 400,
                           "No answers for this category in this session", <<>>))
       ELSE IF r.row.seen # Null
       THEN Answer(r, Resp("complete_category", r.jti, 400,
                           "Category already completed", <<>>))
       ELSE Advance(r, [r.row EXCEPT !.pc = "commit", !.stamp = now])
    /\ UNCHANGED <<db, tokens, cache, redisUp, now, history>>

\* lines 161-169: the UPDATE of the column assigned
CompleteCategoryCommit(r) ==
    /\ r \in PendingAt("complete_category", "commit")
    /\ session_categories' =
          [session_categories EXCEPT ![<<r.row.sid, r.row.cid>>].completed_at = r.row.stamp]
    /\ Answer(r, Resp("complete_category", r.jti, 200, "Category completed",
                      <<r.row.cid, r.row.stamp>>))
    /\ UNCHANGED <<users, sessions, answers, tokens, cache, redisUp, now, history>>

(* --------------------------- correct_category -------------------------- *)
\* correct_category, lines 254-265: the decorator and the session
CorrectCategoryCheck(t, sid, cid) ==
    LET v == VerifyJwt(t, FALSE)
    IN  IF v # "ok" THEN JwtError("correct_category", t, v)
        ELSE IF FindSession(sid, t.sub) = 0
        THEN Resp("correct_category", t.jti, 404, "Session not found", <<>>)
        ELSE NoResp

CorrectCategoryBegin(t, sid, cid) ==
    /\ AnswerOrStart(CorrectCategoryCheck(t, sid, cid),
                     Request("correct_category", t.jti, t.sub,
                             QuizRow(sid, cid, 0, NoAnswer, "category", Null, Null,
                                     Null, 0)))
    /\ UNCHANGED <<db, tokens, cache, redisUp, now, history>>

\* lines 267-279: the per-session category row; sc.was_corrected = True
CorrectCategoryReadCategory(r) ==
    /\ r \in PendingAt("correct_category", "category")
    /\ IF ~HasSessionCategory(r.row.sid, r.row.cid)
       THEN Answer(r, Resp("correct_category", r.jti, 404,
                           "Category not part of this session", <<>>))
       ELSE IF session_categories[<<r.row.sid, r.row.cid>>].was_corrected
       THEN Answer(r, Resp("correct_category", r.jti, 400,
                           "Category already corrected", <<>>))
       ELSE Advance(r, [r.row EXCEPT !.pc = "commit"])
    /\ UNCHANGED <<db, tokens, cache, redisUp, now, history>>

\* lines 280-288: the UPDATE of the column assigned
CorrectCategoryCommit(r) ==
    /\ r \in PendingAt("correct_category", "commit")
    /\ session_categories' =
          [session_categories EXCEPT ![<<r.row.sid, r.row.cid>>].was_corrected = TRUE]
    /\ Answer(r, Resp("correct_category", r.jti, 200, "Category corrected",
                      <<r.row.cid>>))
    /\ UNCHANGED <<users, sessions, answers, tokens, cache, redisUp, now, history>>

(* -------------------------- add_or_update_answer ----------------------- *)
\* add_or_update_answer, lines 172-191: the decorator, the session and the
\* body
AddAnswerCheck(t, sid, body) ==
    LET v == VerifyJwt(t, FALSE)
    IN  IF v # "ok" THEN JwtError("add_or_update_answer", t, v)
        ELSE IF FindSession(sid, t.sub) = 0
        THEN Resp("add_or_update_answer", t.jti, 404, "Session not found", <<>>)
        ELSE IF sessions[sid].completed_at # Null
        THEN Resp("add_or_update_answer", t.jti, 400, "Session already completed", <<>>)
        ELSE IF ~ParseInt(body.category_id).ok \/ ~ParseInt(body.question_number).ok
        THEN Resp("add_or_update_answer", t.jti, 400,
                  "Invalid or missing required fields", <<>>)
        ELSE NoResp

AddAnswerBegin(t, sid, body) ==
    /\ AnswerOrStart(AddAnswerCheck(t, sid, body),
                     Request("add_or_update_answer", t.jti, t.sub,
                             QuizRow(sid, ParseInt(body.category_id).val,
                                     ParseInt(body.question_number).val,
                                     body.answer, "category", Null, Null, Null, 0)))
    /\ UNCHANGED <<db, tokens, cache, redisUp, now, history>>

\* 1 <= question_number <= category.question_count
ValidQuestionNumber(cid, qn) == 1 <= qn /\ qn <= TestCategories[cid].question_count

\* lines 195-205: the per-session category row and the range of the question
\* number; sc.started_at = datetime.utcnow() if it was None
AddAnswerReadCategory(r) ==
    /\ r \in PendingAt("add_or_update_answer", "category")
    /\ IF ~HasSessionCategory(r.row.sid, r.row.cid)
       THEN Answer(r, Resp("add_or_update_answer", r.jti, 400,
                           "Category not part of this session", <<>>))
       ELSE IF ~ValidQuestionNumber(r.row.cid, r.row.qn)
       THEN Answer(r, Resp("add_or_update_answer", r.jti, 400,
                           "Invalid question number", <<>>))
       ELSE Advance(r, [r.row EXCEPT
                           !.pc = "existing",
                           !.started =
                              IF session_categories[<<r.row.sid, r.row.cid>>]
                                    .started_at = Null
                              THEN now ELSE Null])
    /\ UNCHANGED <<db, tokens, cache, redisUp, now, history>>

\* lines 207-216: the answer already stored for the question, if any;
\* existing.answered_at = datetime.utcnow()
AddAnswerReadExisting(r) ==
    /\ r \in PendingAt("add_or_update_answer", "existing")
    /\ Advance(r, [r.row EXCEPT
                      !.pc = "commit",
                      !.existing = FindAnswer(r.row.sid, r.row.cid, r.row.qn),
                      !.stamp = IF FindAnswer(r.row.sid, r.row.cid, r.row.qn) # 0
                                THEN now ELSE Null])
    /\ UNCHANGED <<db, tokens, cache, redisUp, now, history>>

\* UserTestAnswer(...): a row of user_test_answers; answered_at defaults to
\* the time of the INSERT
NewAnswer(row) ==
    [session_id |-> row.sid, category_id |-> row.cid, question_number |-> row.qn,
     answer_state |-> row.ans.answer_state, user_answer |-> row.ans.user_answer,
     answered_at |-> now]

\* the answer found, with the columns assigned
UpdatedAnswer(row) ==
    [answers[row.existing] EXCEPT !.answer_state = row.ans.answer_state,
                                  !.user_answer = row.ans.user_answer,
                                  !.answered_at = row.stamp]

\* a table without the unique constraint
UniqueViolationNever(row) == FALSE

\* uq_session_category_question refuses the INSERT
UniqueViolation(row) == FindAnswer(row.sid, row.cid, row.qn) # 0

\* lines 213-229: the commit.  The INSERT of a second answer to a question is
\* refused by the unique constraint (IntegrityError, not handled: 500) and
\* the transaction is rolled back; otherwise the answer is inserted or
\* updated, and started_at is written if it was assigned
AddAnswerCommit(r) ==
    /\ r \in PendingAt("add_or_update_answer", "commit")
    /\ IF r.row.existing = 0 /\ UniqueViolation(r.row)
       THEN /\ Answer(r, Resp("add_or_update_answer", r.jti, 500,
                              "Internal Server Error", <<>>))
            /\ UNCHANGED <<session_categories, answers>>
       ELSE /\ Answer(r, Resp("add_or_update_answer", r.jti, 200, "Answer saved", <<>>))
            /\ answers' = IF r.row.existing # 0
                          THEN [answers EXCEPT ![r.row.existing] = UpdatedAnswer(r.row)]
                          ELSE Append(answers, NewAnswer(r.row))
            /\ session_categories' =
                  IF r.row.started # Null
                  THEN [session_categories EXCEPT
                           ![<<r.row.sid, r.row.cid>>].started_at = r.row.started]
                  ELSE session_categories
    /\ UNCHANGED <<users, sessions, tokens, cache, redisUp, now, history>>

\* the bodies sent to add_or_update_answer
Bodies ==
    {[category_id |-> c, question_number |-> q, answer |-> a] :
        c \in RawCategoryIds, q \in RawQuestionNumbers, a \in RawAnswers}

(* ------------------------------ quiz: Next ----------------------------- *)
\* the tokens of the initial state: both users have logged in at time 0
LoggedIn ==
    { [jti |-> 2 * u - 1, sub |-> u, kind |-> "access",
       ver |-> DefaultTokenVersion, iat |-> 0, exp |-> AccessTTL, parent |-> 0] :
         u \in DOMAIN Registered }
    \cup
    { [jti |-> 2 * u, sub |-> u, kind |-> "refresh",
       ver |-> DefaultTokenVersion, iat |-> 0, exp |-> RefreshTTL, parent |-> 0] :
         u \in DOMAIN Registered }

InitQuiz ==
    /\ users = Registered
    /\ sessions = <<>>
    /\ session_categories = <<>>
    /\ answers = <<>>
    /\ tokens = LoggedIn
    /\ cache = <<>>
    /\ redisUp = TRUE
    /\ now = 0
    /\ inflight = EmptyBag
    /\ last = NoResp
    /\ revokedUpTo = [u \in DOMAIN Registered |-> 0]
    /\ loggedOut = {}

PostSession == Idle /\ FreeWorker /\ \E t \in tokens : CreateSession(t)

GetSession1 ==
    Idle /\ FreeWorker /\ \E t \in tokens, sid \in SessionIds : GetSession(t, sid)

GetSessionCategories ==
    Idle /\ FreeWorker
    /\ \E t \in tokens, sid \in SessionIds : ListSessionCategories(t, sid)

GetAnswers ==
    Idle /\ FreeWorker /\ \E t \in tokens, sid \in SessionIds : ListAnswers(t, sid)

PatchCompleteSession ==
    Idle /\ FreeWorker
    /\ \E t \in tokens, sid \in SessionIds : CompleteSessionBegin(t, sid)

CompleteSessionReturns ==
    Idle /\ \E r \in BagToSet(inflight) : CompleteSessionCommit(r)

PatchCompleteCategory ==
    Idle /\ FreeWorker
    /\ \E t \in tokens, sid \in SessionIds, cid \in CategoryIds :
          CompleteCategoryBegin(t, sid, cid)

CompleteCategoryGoesOn ==
    Idle /\ \E r \in BagToSet(inflight) :
               CompleteCategoryReadCategory(r) \/ CompleteCategoryReadAnswers(r)

CompleteCategoryReturns ==
    Idle /\ \E r \in BagToSet(inflight) : CompleteCategoryCommit(r)

PatchCorrectCategory ==
    Idle /\ FreeWorker
    /\ \E t \in tokens, sid \in SessionIds, cid \in CategoryIds :
          CorrectCategoryBegin(t, sid, cid)

CorrectCategoryGoesOn ==
    Idle /\ \E r \in BagToSet(inflight) : CorrectCategoryReadCategory(r)

CorrectCategoryReturns ==
    Idle /\ \E r \in BagToSet(inflight) : CorrectCategoryCommit(r)

PostAnswer ==
    Idle /\ FreeWorker
    /\ \E t \in tokens, sid \in SessionIds, body \in Bodies : AddAnswerBegin(t, sid, body)

AddAnswerGoesOn ==
    Idle /\ \E r \in BagToSet(inflight) :
               AddAnswerReadCategory(r) \/ AddAnswerReadExisting(r)

AddAnswerReturns == Idle /\ \E r \in BagToSet(inflight) : AddAnswerCommit(r)

\* the quiz handlers, with the clock running
NextQuiz ==
    \/ PostSession
    \/ GetSessions
    \/ GetSession1
    \/ GetSessionCategories
    \/ GetAnswers
    \/ PatchCompleteSession
    \/ CompleteSessionReturns
    \/ PatchCompleteCategory
    \/ CompleteCategoryGoesOn
    \/ CompleteCategoryReturns
    \/ PatchCorrectCategory
    \/ CorrectCategoryGoesOn
    \/ CorrectCategoryReturns
    \/ PostAnswer
    \/ AddAnswerGoesOn
    \/ AddAnswerReturns
    \/ ClockTick
    \/ Deliver

SpecQuiz == InitQuiz /\ [][NextQuiz]_vars

(* --------------------------- claims on the quiz ------------------------ *)
\* the answers stored for session sid, with their ids
AnswerRows(sid) == {<<i, answers[i]>> : i \in AnswersOfSession(sid)}

\* session sid is completed
Completed(sid) == sessions[sid].completed_at # Null

(* --------------------------------- C22 --------------------------------- *)
\* C22: no step adds an answer to a session whose completed_at is set, or
\* changes one of its answers.
C22_CompletedSessionFrozen ==
    [][\A sid \in DOMAIN sessions :
          Completed(sid) => AnswerRows(sid)' = AnswerRows(sid)]_vars

(* --------------------------------- C23 --------------------------------- *)
\* no two rows of user_test_answers are answers to the same question of the
\* same category and session
OneAnswerPerQuestion ==
    \A i, j \in DOMAIN answers :
        /\ answers[i].session_id = answers[j].session_id
        /\ answers[i].category_id = answers[j].category_id
        /\ answers[i].question_number = answers[j].question_number
        => i = j

\* what is stored as the answers: the rows without their answered_at
Stored ==
    {[session_id |-> answers[i].session_id, category_id |-> answers[i].category_id,
      question_number |-> answers[i].question_number,
      answer_state |-> answers[i].answer_state,
      user_answer |-> answers[i].user_answer] : i \in DOMAIN answers}

\* this step is the commit of request r, answered with code
Commits(r, code) ==
    /\ inflight' = inflight (-) SetToBag({r})
    /\ last'.op = r.op /\ last'.jti = r.jti /\ last'.code = code

\* C23: there is at most one stored answer per session, category and
\* question_number.  The step in which add_or_update_answer answers 200 for
\* a question that has an answer adds no row and leaves that row with the
\* answer_state and user_answer of the request, and for a question without
\* an answer adds one row; when the row holds these values already, what is
\* stored stays the same.
C23_OneAnswerPerQuestion ==
    [][/\ OneAnswerPerQuestion /\ OneAnswerPerQuestion'
       /\ \A r \in PendingAt("add_or_update_answer", "commit") :
             Commits(r, 200) =>
                LET old == AnswersOfQuestion(r.row.sid, r.row.cid, r.row.qn)
                IN  IF old = {}
                    THEN Len(answers') = Len(answers) + 1
                    ELSE /\ Len(answers') = Len(answers)
                         /\ \A i \in DOMAIN answers :
                               IF i \in old
                               THEN /\ answers'[i].answer_state = r.row.ans.answer_state
                                    /\ answers'[i].user_answer = r.row.ans.user_answer
                               ELSE answers'[i] = answers[i]
                         /\ (\A i \in old :
                               /\ answers[i].answer_state = r.row.ans.answer_state
                               /\ answers[i].user_answer = r.row.ans.user_answer)
                            => Stored' = Stored]_vars

\* add_or_update_answer has answered 200 and the only answer stored is older
\* than its commit and holds "2": the request has overwritten the answer it
\* found (an inserted row has the time of its commit)
C23_Witness ==
    /\ last.op = "add_or_update_answer" /\ last.code = 200
    /\ Len(answers) = 1
    /\ answers[1].answered_at < now
    /\ answers[1].answer_state = "2"

(* --------------------------------- C24 --------------------------------- *)
\* the answer "Session not found" of operation op to token t
SessionNotFound(op, t) == Resp(op, t.jti, 404, "Session not found", <<>>)

\* the operations on one session
SessionOps ==
    {"get_session", "complete_session", "list_session_categories",
     "complete_category", "correct_category", "add_or_update_answer",
     "list_answers"}

\* the requests in progress on a session
QuizRequests == {r \in BagToSet(inflight) : r.op \in SessionOps}

\* C24: to a token the decorator accepts, every operation on a session of
\* another user answers 404 "Session not found" and nothing else, whatever
\* the category and the body sent; the step that answers it changes no table
\* and starts no request, and every request in progress works on a session
\* of its own user; list_sessions answers with the sessions of the token's
\* subject, all of them and no other.
C24_SessionsIsolatedPerUser ==
    [][/\ \A t \in tokens, sid \in DOMAIN sessions :
             VerifyJwt(t, FALSE) = "ok" /\ sessions[sid].user_id # t.sub =>
                /\ GetSessionResponse(t, sid) = SessionNotFound("get_session", t)
                /\ ListSessionCategoriesResponse(t, sid)
                      = SessionNotFound("list_session_categories", t)
                /\ ListAnswersResponse(t, sid) = SessionNotFound("list_answers", t)
                /\ CompleteSessionCheck(t, sid) = SessionNotFound("complete_session", t)
                /\ \A cid \in CategoryIds :
                      /\ CompleteCategoryCheck(t, sid, cid)
                            = SessionNotFound("complete_category", t)
                      /\ CorrectCategoryCheck(t, sid, cid)
                            = SessionNotFound("correct_category", t)
                /\ \A body \in Bodies :
                      AddAnswerCheck(t, sid, body)
                         = SessionNotFound("add_or_update_answer", t)
       /\ \A t \in tokens :
             ListSessionsResponse(t).code = 200 =>
                {ListSessionsResponse(t).out[i] : i \in DOMAIN ListSessionsResponse(t).out}
                   = {sid \in DOMAIN sessions : sessions[sid].user_id = t.sub}
       /\ \A r \in QuizRequests : sessions[r.row.sid].user_id = r.uid
       /\ last'.code = 404 /\ last'.msg = "Session not found" =>
             UNCHANGED <<db, tokens, cache, inflight>>]_vars

\* complete_session has answered "Session not found" to a token the
\* decorator accepts, for a session that exists and is not completed
C24_Witness ==
    /\ last.op = "complete_session" /\ last.code = 404
    /\ last.msg = "Session not found"
    /\ VerifyJwt(TokenOf(last.jti), FALSE) = "ok"
    /\ \E sid \in DOMAIN sessions :
          sessions[sid].user_id # TokenOf(last.jti).sub /\ ~Completed(sid)

(* --------------------------------- C25 --------------------------------- *)
\* C25: no step changes a completed_at of a session, or a started_at or a
\* completed_at of a session category, that is set, and none resets a
\* was_corrected that is true.
C25_MarksSetOnce ==
    [][/\ \A sid \in DOMAIN sessions :
             sessions[sid].completed_at # Null =>
                sessions'[sid].completed_at = sessions[sid].completed_at
       /\ \A k \in DOMAIN session_categories :
             /\ session_categories[k].started_at # Null =>
                   session_categories'[k].started_at = session_categories[k].started_at
             /\ session_categories[k].completed_at # Null =>
                   session_categories'[k].completed_at
                      = session_categories[k].completed_at
             /\ session_categories[k].was_corrected =>
                   session_categories'[k].was_corrected]_vars

(* --------------------------------- C26 --------------------------------- *)
\* every completed category has been started and has an answer
CompletedCategoryHasAnswer ==
    \A k \in DOMAIN session_categories :
        session_categories[k].completed_at # Null =>
            /\ session_categories[k].started_at # Null
            /\ AnswersOfCategory(k[1], k[2]) # {}

\* C26: in every state a session category whose completed_at is set has its
\* started_at set and an answer stored.  complete_category answers 400 and
\* changes nothing when its query finds no answer of the category, and the
\* commit in which add_or_update_answer answers 200 leaves the category's
\* started_at set.
C26_CompletedCategoryHasAnswer ==
    [][/\ CompletedCategoryHasAnswer /\ CompletedCategoryHasAnswer'
       /\ \A r \in PendingAt("complete_category", "answers") :
             /\ AnswersOfCategory(r.row.sid, r.row.cid) = {}
             /\ inflight' # inflight
             /\ r \notin DOMAIN inflight' \/ inflight'[r] < inflight[r]
             => /\ last' = Resp("complete_category", r.jti, 400,
                                "No answers for this category in this session", <<>>)
                /\ UNCHANGED db
       /\ \A r \in PendingAt("add_or_update_answer", "commit") :
             Commits(r, 200) =>
                session_categories'[<<r.row.sid, r.row.cid>>].started_at # Null]_vars

\* complete_category has answered 200 for a category that is started and has
\* an answer
C26_Witness ==
    /\ last.op = "complete_category" /\ last.code = 200
    /\ \E k \in DOMAIN session_categories :
          /\ k[2] = last.out[1]
          /\ session_categories[k].completed_at = last.out[2]
          /\ session_categories[k].started_at # Null
          /\ AnswersOfCategory(k[1], k[2]) # {}

(* --------------------------------- C27 --------------------------------- *)
\* the answer of add_or_update_answer to a body it cannot read
InvalidFields(t) ==
    Resp("add_or_update_answer", t.jti, 400, "Invalid or missing required fields", <<>>)

\* C27: every stored answer, and every answer a request is about to store,
\* is of a category attached to its session and of a question number between
\* 1 and the category's question_count; and add_or_update_answer answers 400
\* "Invalid or missing required fields" to every body whose category_id or
\* question_number is missing or is not a JSON integer.
C27_AnswersWithinCategory ==
    /\ \A i \in DOMAIN answers :
          /\ HasSessionCategory(answers[i].session_id, answers[i].category_id)
          /\ ValidQuestionNumber(answers[i].category_id, answers[i].question_number)
    /\ \A r \in PendingAt("add_or_update_answer", "existing")
                   \cup PendingAt("add_or_update_answer", "commit") :
          /\ HasSessionCategory(r.row.sid, r.row.cid)
          /\ ValidQuestionNumber(r.row.cid, r.row.qn)
    /\ Idle => \A t \in tokens, sid \in DOMAIN sessions, body \in Bodies :
          /\ VerifyJwt(t, FALSE) = "ok"
          /\ FindSession(sid, t.sub) # 0 /\ ~Completed(sid)
          /\ body.category_id.type # "int" \/ body.question_number.type # "int"
          => AddAnswerCheck(t, sid, body) = InvalidFields(t)

(* ----------------------------- health probes --------------------------- *)
\* tokens ever issued in the specification with the health probes
HealthTokens == 2

\* create_app, __init__.py lines 101-108: the keys of app.extensions once
\* the factory has run, one per library initialised on the app (CORS,
\* Flask-SQLAlchemy, Flask-JWT-Extended).  The Redis client is the module
\* global r of line 75; the factory stores nothing under "redis".
AppExtensions == {"cors", "sqlalchemy", "flask-jwt-extended"}

\* db_redis_health, lines 69-74: SELECT 1, whose outcome is selectOk
DatabaseCheck(selectOk) == IF selectOk THEN "ok" ELSE "error: OperationalError"

\* db_redis_health, lines 77-87: the lookup of the client in the given
\* app.extensions, then PING (which answers True or raises)
RedisCheckIn(extensions) ==
    IF "redis" \notin extensions THEN "error: KeyError"
    ELSE IF ~redisUp THEN "error: ConnectionError"
    ELSE "ok"

\* the Redis check of the application create_app builds
RedisCheck == RedisCheckIn(AppExtensions)

\* db_redis_health, lines 65-90: 200 when no check has set 503; out is
\* <<checks["database"], checks["redis"]>>
DbRedisHealthResponse(selectOk) ==
    LET database == DatabaseCheck(selectOk)
        redis == RedisCheck
        status_code == IF database = "ok" /\ redis = "ok" THEN 200 ELSE 503
    IN Resp("db_redis_health", 0, status_code,
            IF status_code = 200 THEN "ok" ELSE "degraded",
            <<database, redis>>)

DbRedisHealth(selectOk) ==
    /\ last' = DbRedisHealthResponse(selectOk)
    /\ UNCHANGED <<db, tokens, cache, redisUp, now, inflight, history>>

\* health, lines 93-95
Health ==
    /\ last' = Resp("health", 0, 200, "OK", <<>>)
    /\ UNCHANGED <<db, tokens, cache, redisUp, now, inflight, history>>

GetDbCacheHealth == Idle /\ FreeWorker /\ \E selectOk \in BOOLEAN : DbRedisHealth(selectOk)

GetHealth == Idle /\ FreeWorker /\ Health

\* the probes beside login and logout, which reach Redis through the global
\* client, with the clock running and the Redis server failing and recovering
NextHealth ==
    \/ PostLogin(HealthTokens)
    \/ LoginReturns
    \/ PostLogout
    \/ GetMe
    \/ GetDbCacheHealth
    \/ GetHealth
    \/ ClockTick
    \/ RedisFault
    \/ Deliver

SpecHealth == Init /\ [][NextHealth]_vars

\* the SELECT 1 of the probe that has just answered succeeded
DatabaseChecked == last.out[1] = "ok"

\* C28: the db_cache_health probe answers 200 with status "ok" exactly when
\* its database check succeeded and the Redis server is reachable, and 503
\* with status "degraded" otherwise; in particular it answers 200 whenever
\* both are reachable.
C28_HealthOkIffBothReachable ==
    last.op = "db_redis_health" =>
        IF DatabaseChecked /\ redisUp
        THEN last.code = 200 /\ last.msg = "ok"
        ELSE last.code = 503 /\ last.msg = "degraded"

====
